---------------------------- MODULE Spec2Model ----------------------------
(***************************************************************************)
(* Prompt Engineer Middleware: the enhancement pipeline of                 *)
(* src/prompt-engineer.py (PromptEngineer) driven by the request handlers  *)
(* of src/prompt-middleware.py (process_prompt, provide_feedback,          *)
(* get_enhancement_history) over the connectors of src/llm-providers.py.   *)
(*                                                                         *)
(* Conventions.                                                            *)
(*  - An Optional value is a set of at most one element: None is {} and    *)
(*    a present value x is {x}.                                            *)
(*  - A text is a sequence of pieces whose concatenation is the string.    *)
(*    Prompts, provider names and model names are given character by       *)
(*    character (each piece one character), so that lower-casing and       *)
(*    substring search work on them as str.lower() and `in` do; other      *)
(*    texts (answers, error messages, credentials) are one piece.          *)
(*  - An operation that can raise yields a record whose `raised` field     *)
(*    says so, with str(e) in `error`.                                     *)
(*  - last_response holds the response being sent; handlers run only when  *)
(*    none is, so every response is seen in the state it was made in. A    *)
(*    call that is cancelled sends nothing: its end is recorded there too. *)
(***************************************************************************)
EXTENDS Integers, Sequences, FiniteSets, TLC

VARIABLES
    environ,          \* os.environ: the credentials the process was started with
    rules_file,       \* the content of enhancement_rules.json in the working directory
    llm_providers,    \* prompt-middleware.py:50  provider_key -> connector
    prompt_engineers, \* prompt-middleware.py:51  id(provider) -> PromptEngineer
    calls,            \* the process_prompt coroutines in flight, by slot
    last_response,    \* the HTTP response being sent, or the end of a cancelled call
    probe             \* input and output of the pure function under test

vars == <<environ, rules_file, llm_providers, prompt_engineers, calls, last_response, probe>>

-----------------------------------------------------------------------------
(* Bounds of the model *)

\* the number of process_prompt coroutines that can be in flight together
MaxInflight == 2

\* the number of records one PromptEngineer's history can grow to
MaxHist == 2

\* the number of fragments a probed prompt is built from
MaxFrags == 3

-----------------------------------------------------------------------------
(* Optional values *)

None == {}

Some(x) == {x}

TheValue(o) == CHOOSE x \in o : TRUE

\* Python truthiness of an Optional[str]: None and "" are false
Truthy(o) == o # None /\ TheValue(o) # <<>>

\* Python `a or b` on Optional[str] values
OrElse(a, b) == IF Truthy(a) THEN a ELSE b

-----------------------------------------------------------------------------
(* Text *)

\* dict.update on dicts whose order is never read: the keys of `over` overwrite those of `base`
DictUpdate(base, over) ==
    [k \in (DOMAIN base) \cup (DOMAIN over) |->
        IF k \in DOMAIN over THEN over[k] ELSE base[k]]

UpperChars == <<"A","B","C","D","E","F","G","H","I","J","K","L","M",
                "N","O","P","Q","R","S","T","U","V","W","X","Y","Z">>

LowerChars == <<"a","b","c","d","e","f","g","h","i","j","k","l","m",
                "n","o","p","q","r","s","t","u","v","w","x","y","z">>

\* str.lower() on one character
LowerChar(c) ==
    IF \E i \in DOMAIN UpperChars : UpperChars[i] = c
    THEN LowerChars[CHOOSE i \in DOMAIN UpperChars : UpperChars[i] = c]
    ELSE c

\* str.lower()
Lower(s) == [i \in DOMAIN s |-> LowerChar(s[i])]

\* Python `term in s` on strings: term occurs in s as a contiguous substring
Contains(s, term) ==
    \E i \in 0..(Len(s) - Len(term)) : SubSeq(s, i + 1, i + Len(term)) = term

CodingTerms ==
    { <<"c","o","d","e">>, <<"f","u","n","c","t","i","o","n">>,
      <<"p","r","o","g","r","a","m">>, <<"s","c","r","i","p","t">>,
      <<"d","e","v","e","l","o","p">>, <<"b","u","g">>,
      <<"d","e","b","u","g">>, <<"c","o","d","i","n","g">> }

CreativeTerms ==
    { <<"w","r","i","t","e">>, <<"s","t","o","r","y">>,
      <<"c","r","e","a","t","i","v","e">>, <<"d","e","s","i","g","n">>,
      <<"a","r","t","i","c","l","e">>, <<"b","l","o","g">> }

AnalyticalTerms ==
    { <<"a","n","a","l","y","z","e">>, <<"a","n","a","l","y","s","i","s">>,
      <<"r","e","s","e","a","r","c","h">>, <<"e","v","a","l","u","a","t","e">>,
      <<"c","o","m","p","a","r","e">>, <<"e","x","p","l","a","i","n">>,
      <<"r","e","a","s","o","n">> }

\* any(term in prompt_lower for term in terms)
AnyTermIn(terms, prompt_lower) == \E term \in terms : Contains(prompt_lower, term)

\* PromptEngineer.detect_prompt_type with the creative test made first
detect_prompt_type_creative_first(prompt) ==
    LET prompt_lower == Lower(prompt)
    IN  IF AnyTermIn(CreativeTerms, prompt_lower) THEN "creative"
        ELSE IF AnyTermIn(CodingTerms, prompt_lower) THEN "coding"
        ELSE IF AnyTermIn(AnalyticalTerms, prompt_lower) THEN "analytical"
        ELSE "default"

\* PromptEngineer.detect_prompt_type
detect_prompt_type(prompt) ==
    LET prompt_lower == Lower(prompt)
    IN  IF AnyTermIn(CodingTerms, prompt_lower) THEN "coding"
        ELSE IF AnyTermIn(CreativeTerms, prompt_lower) THEN "creative"
        ELSE IF AnyTermIn(AnalyticalTerms, prompt_lower) THEN "analytical"
        ELSE "default"

-----------------------------------------------------------------------------
(* Enhancement rules: PromptEngineer.load_enhancement_rules *)

\* the pieces of a template that str.format reads as replacement fields
FieldPieces == {"{prompt}", "{task}"}

BuiltinRules ==
    [ coding |->
        [ system_prompt |-> "You are a professional software developer with expertise in clean code and best practices.",
          template |-> << "Consider this coding request: ", "{prompt}",
                          " Enhance this request by: 1..5 (coding) Return ONLY the enhanced prompt without explanations or preamble." >> ],
      creative |->
        [ system_prompt |-> "You are a creative writing and content creation expert.",
          template |-> << "Consider this creative request: ", "{prompt}",
                          " Enhance this request by: 1..5 (creative) Return ONLY the enhanced prompt without explanations or preamble." >> ],
      analytical |->
        [ system_prompt |-> "You are an analytical expert specializing in structured thinking and clear analysis.",
          template |-> << "Consider this analytical request: ", "{prompt}",
                          " Enhance this request by: 1..5 (analytical) Return ONLY the enhanced prompt without explanations or preamble." >> ],
      default |->
        [ system_prompt |-> "You are an expert prompt engineer who improves user prompts for better results.",
          template |-> << "Consider this prompt: ", "{prompt}",
                          " Enhance this prompt to be more effective by: 1..5 Return ONLY the enhanced prompt without explanations or preamble." >> ] ]

\* enhancement_rules.json does not exist: open() raises FileNotFoundError
FileAbsent == [exists |-> FALSE]

\* enhancement_rules.json holds text that is not JSON: json.load raises JSONDecodeError
FileNotJson == [exists |-> TRUE, json |-> [type |-> "invalid"]]

\* enhancement_rules.json holds a JSON object, given as the dict json.load returns
FileObject(d) == [exists |-> TRUE, json |-> [type |-> "object", value |-> d]]

\* enhancement_rules.json holds a JSON number
FileNumber == [exists |-> TRUE, json |-> [type |-> "number"]]

\* load_enhancement_rules with the custom rules taking the place of the whole
\* table
load_enhancement_rules_overlay_only(file) ==
    IF ~file.exists
    THEN [raised |-> FALSE, rules |-> BuiltinRules]
    ELSE IF file.json.type = "invalid"
    THEN [raised |-> FALSE, rules |-> BuiltinRules]
    ELSE IF file.json.type = "object"
    THEN [raised |-> FALSE, rules |-> file.json.value]
    ELSE [raised |-> TRUE, error |-> <<"'int' object is not iterable">>]

\* load_enhancement_rules with the update made the other way round: the
\* built-in rules overwrite the custom ones
load_enhancement_rules_builtin_wins(file) ==
    IF ~file.exists
    THEN [raised |-> FALSE, rules |-> BuiltinRules]
    ELSE IF file.json.type = "invalid"
    THEN [raised |-> FALSE, rules |-> BuiltinRules]
    ELSE IF file.json.type = "object"
    THEN [raised |-> FALSE, rules |-> DictUpdate(file.json.value, BuiltinRules)]
    ELSE [raised |-> TRUE, error |-> <<"'int' object is not iterable">>]

\* PromptEngineer.load_enhancement_rules: the rules the constructor leaves in
\* self.enhancement_rules, or the exception that leaves the constructor
load_enhancement_rules(file) ==
    IF ~file.exists
    THEN [raised |-> FALSE, rules |-> BuiltinRules]          \* FileNotFoundError, caught
    ELSE IF file.json.type = "invalid"
    THEN [raised |-> FALSE, rules |-> BuiltinRules]          \* JSONDecodeError, caught
    ELSE IF file.json.type = "object"
    THEN [raised |-> FALSE, rules |-> DictUpdate(BuiltinRules, file.json.value)]
    ELSE [raised |-> TRUE, error |-> <<"'int' object is not iterable">>]  \* dict.update(5)

\* str.format(prompt=prompt) from piece i of the template on
RECURSIVE FormatFrom(_, _, _)
FormatFrom(template, i, prompt) ==
    IF i > Len(template) THEN [raised |-> FALSE, value |-> <<>>]
    ELSE LET rest == FormatFrom(template, i + 1, prompt)
             piece == template[i]
         IN  IF piece \in FieldPieces /\ piece # "{prompt}"
             THEN [raised |-> TRUE, error |-> <<"'task'">>]          \* KeyError
             ELSE IF rest.raised THEN rest
             ELSE [raised |-> FALSE,
                   value |-> (IF piece = "{prompt}" THEN prompt ELSE <<piece>>) \o rest.value]

\* template.format(prompt=prompt)
Format(template, prompt) == FormatFrom(template, 1, prompt)

-----------------------------------------------------------------------------
(* Providers: llm-providers.py and get_or_create_provider *)

Str_openai == <<"o","p","e","n","a","i">>

Str_anthropic == <<"a","n","t","h","r","o","p","i","c">>

Str_huggingface == <<"h","u","g","g","i","n","g","f","a","c","e">>

Str_default == <<"d","e","f","a","u","l","t">>

\* the environment variable each connector falls back to
EnvVar(kind) ==
    CASE kind = "openai" -> "OPENAI_API_KEY"
      [] kind = "anthropic" -> "ANTHROPIC_API_KEY"
      [] kind = "huggingface" -> "HUGGINGFACE_API_KEY"

\* str(e) of the ValueError each connector raises without a credential
KeyRequired(kind) ==
    CASE kind = "openai" -> <<"OpenAI API key is required">>
      [] kind = "anthropic" -> <<"Anthropic API key is required">>
      [] kind = "huggingface" -> <<"Hugging Face API key is required">>

\* OpenAIConnector / AnthropicConnector / HuggingFaceConnector __init__:
\* the connector, or the ValueError of a missing credential
Connector(kind, env, api_key, model) ==
    LET key == OrElse(api_key, env[EnvVar(kind)])
    IN  IF ~Truthy(key)
        THEN [raised |-> TRUE, error |-> KeyRequired(kind)]
        ELSE [raised |-> FALSE,
              provider |-> [kind |-> kind, api_key |-> TheValue(key), model |-> model]]

\* f"{provider_name}_{model or 'default'}"
ProviderKey(provider_name, model) ==
    provider_name \o <<"_">> \o TheValue(OrElse(model, Some(Str_default)))

\* the connector class get_or_create_provider picks for a provider name, if any
ConnectorKind(provider_name) ==
    LET n == Lower(provider_name)
    IN  IF n = Str_openai THEN Some("openai")
        ELSE IF n = Str_anthropic THEN Some("anthropic")
        ELSE IF n = Str_huggingface THEN Some("huggingface")
        ELSE None

\* get_or_create_provider registering the key before the connector is made:
\* a connector that cannot be made leaves a placeholder behind
get_or_create_provider_registers_first(providers, env, provider_name, api_key, model) ==
    LET provider_key == ProviderKey(provider_name, model)
        kind == ConnectorKind(provider_name)
        placeholder == [kind |-> "none", api_key |-> <<>>, model |-> model]
    IN  IF provider_key \in DOMAIN providers
        THEN [raised |-> FALSE, providers |-> providers, provider |-> provider_key]
        ELSE IF kind = None
        THEN [raised |-> TRUE, error |-> <<"Unsupported provider: ">> \o provider_name,
              providers |-> DictUpdate(providers, [k \in {provider_key} |-> placeholder])]
        ELSE LET made == Connector(TheValue(kind), env, api_key, model)
             IN  IF made.raised
                 THEN [raised |-> TRUE, error |-> made.error,
                       providers |-> DictUpdate(providers, [k \in {provider_key} |-> placeholder])]
                 ELSE [raised |-> FALSE,
                       providers |-> DictUpdate(providers, [k \in {provider_key} |-> made.provider]),
                       provider |-> provider_key]

\* get_or_create_provider making a new connector for a registered key when the
\* request carries a credential
get_or_create_provider_rekeyed(providers, env, provider_name, api_key, model) ==
    LET provider_key == ProviderKey(provider_name, model)
        kind == ConnectorKind(provider_name)
    IN  IF provider_key \in DOMAIN providers /\ ~Truthy(api_key)
        THEN [raised |-> FALSE, providers |-> providers, provider |-> provider_key]
        ELSE IF kind = None
        THEN [raised |-> TRUE, error |-> <<"Unsupported provider: ">> \o provider_name,
              providers |-> providers]
        ELSE LET made == Connector(TheValue(kind), env, api_key, model)
             IN  IF made.raised
                 THEN [raised |-> TRUE, error |-> made.error, providers |-> providers]
                 ELSE [raised |-> FALSE,
                       providers |-> DictUpdate(providers, [k \in {provider_key} |-> made.provider]),
                       provider |-> provider_key]

\* get_or_create_provider: the registry afterwards and the provider returned
\* (named by its key: one connector object per key, never replaced), or the
\* exception raised with the registry as it was
get_or_create_provider(providers, env, provider_name, api_key, model) ==
    LET provider_key == ProviderKey(provider_name, model)
        kind == ConnectorKind(provider_name)
    IN  IF provider_key \in DOMAIN providers
        THEN [raised |-> FALSE, providers |-> providers, provider |-> provider_key]
        ELSE IF kind = None
        THEN [raised |-> TRUE, error |-> <<"Unsupported provider: ">> \o provider_name,
              providers |-> providers]
        ELSE LET made == Connector(TheValue(kind), env, api_key, model)
             IN  IF made.raised
                 THEN [raised |-> TRUE, error |-> made.error, providers |-> providers]
                 ELSE [raised |-> FALSE,
                       providers |-> DictUpdate(providers, [k \in {provider_key} |-> made.provider]),
                       provider |-> provider_key]

\* PromptEngineer.__init__: the new engineer, or the exception of its constructor
NewPromptEngineer(provider, file) ==
    LET loaded == load_enhancement_rules(file)
    IN  IF loaded.raised THEN loaded
        ELSE [raised |-> FALSE,
              engineer |-> [llm_provider |-> provider,
                            enhancement_history |-> <<>>,
                            enhancement_rules |-> loaded.rules]]

\* prompt_engineers is a dict whose insertion order is read (next(iter(...))):
\* `order` lists its keys as inserted and `at` maps each key to its value
EmptyRegistry == [order |-> <<>>, at |-> <<>>]

RegistryKeys(reg) == {reg.order[i] : i \in DOMAIN reg.order}

RegistryInsert(reg, k, v) ==
    [order |-> Append(reg.order, k), at |-> DictUpdate(reg.at, [x \in {k} |-> v])]

\* get_or_create_prompt_engineer: the registry afterwards, or the exception raised
get_or_create_prompt_engineer(engineers, provider, file) ==
    IF provider \in RegistryKeys(engineers)
    THEN [raised |-> FALSE, engineers |-> engineers]
    ELSE LET made == NewPromptEngineer(provider, file)
         IN  IF made.raised
             THEN [raised |-> TRUE, error |-> made.error, engineers |-> engineers]
             ELSE [raised |-> FALSE,
                   engineers |-> RegistryInsert(engineers, provider, made.engineer)]

-----------------------------------------------------------------------------
(* PromptEngineer.enhance_prompt and record_effectiveness *)

\* PromptEnhancement.__init__
PromptEnhancement(original_prompt, enhanced_prompt, now) ==
    [ original_prompt |-> original_prompt,
      enhanced_prompt |-> enhanced_prompt,
      timestamp |-> now,
      effectiveness_rating |-> None ]

\* enhance_prompt up to its await (lines 131-141): the exception that leaves it,
\* the value it returns at once, or the adapter call it waits for
enhance_prompt_call(engineer, prompt) ==
    LET prompt_type == detect_prompt_type(prompt)
        rules == engineer.enhancement_rules
    IN  IF prompt_type \notin DOMAIN rules
        THEN [raised |-> TRUE, error |-> <<"'", prompt_type, "'">>]     \* KeyError
        ELSE LET enhancement_rule == rules[prompt_type]
             IN  IF "template" \notin DOMAIN enhancement_rule
                 THEN [raised |-> TRUE, error |-> <<"'template'">>]     \* KeyError
                 ELSE LET meta_prompt == Format(enhancement_rule.template, prompt)
                      IN  IF meta_prompt.raised
                          THEN [raised |-> TRUE, error |-> meta_prompt.error]
                          ELSE IF "system_prompt" \notin DOMAIN enhancement_rule
                          THEN \* KeyError inside the try: caught, the prompt is returned
                               [raised |-> FALSE, awaiting |-> FALSE, returned |-> prompt]
                          ELSE [raised |-> FALSE, awaiting |-> TRUE,
                                prompt |-> meta_prompt.value,
                                options |-> [system_prompt |-> enhancement_rule.system_prompt]]

\* enhance_prompt returning the prompt it was given on both paths
enhance_prompt_resume_returns_prompt(engineer, prompt, outcome, now) ==
    IF outcome.ok
    THEN [ engineer |->
             [engineer EXCEPT !.enhancement_history =
                 Append(@, PromptEnhancement(prompt, outcome.text, now))],
           returned |-> prompt ]
    ELSE [ engineer |-> engineer, returned |-> prompt ]

\* enhance_prompt putting the new record in front of the history
enhance_prompt_resume_prepends(engineer, prompt, outcome, now) ==
    IF outcome.ok
    THEN [ engineer |->
             [engineer EXCEPT !.enhancement_history =
                 <<PromptEnhancement(prompt, outcome.text, now)>> \o @],
           returned |-> outcome.text ]
    ELSE [ engineer |-> engineer, returned |-> prompt ]

\* enhance_prompt from the adapter's answer on (lines 138-155): the engineer
\* afterwards and the value returned
enhance_prompt_resume(engineer, prompt, outcome, now) ==
    IF outcome.ok
    THEN [ engineer |->
             [engineer EXCEPT !.enhancement_history =
                 Append(@, PromptEnhancement(prompt, outcome.text, now))],
           returned |-> outcome.text ]
    ELSE [ engineer |-> engineer, returned |-> prompt ]

\* record_effectiveness keeping the rating of a record that has one
record_effectiveness_first_write_wins(engineer, index, rating) ==
    IF 0 <= index /\ index < Len(engineer.enhancement_history)
          /\ engineer.enhancement_history[index + 1].effectiveness_rating = None
    THEN [engineer EXCEPT !.enhancement_history[index + 1].effectiveness_rating = Some(rating)]
    ELSE engineer

\* record_effectiveness rating the last record in place of record `index`
record_effectiveness_last(engineer, index, rating) ==
    IF 0 <= index /\ index < Len(engineer.enhancement_history)
    THEN [engineer EXCEPT
            !.enhancement_history[Len(engineer.enhancement_history)].effectiveness_rating =
                Some(rating)]
    ELSE engineer

\* PromptEngineer.record_effectiveness
record_effectiveness(engineer, index, rating) ==
    IF 0 <= index /\ index < Len(engineer.enhancement_history)
    THEN [engineer EXCEPT !.enhancement_history[index + 1].effectiveness_rating = Some(rating)]
    ELSE engineer

\* PromptEnhancement.to_dict over a history
HistoryDicts(history) ==
    [i \in DOMAIN history |->
        [ original_prompt |-> history[i].original_prompt,
          enhanced_prompt |-> history[i].enhanced_prompt,
          timestamp |-> history[i].timestamp,
          effectiveness_rating |-> history[i].effectiveness_rating ]]

-----------------------------------------------------------------------------
(* Inputs *)

EmptyDict == <<>>

\* dict.get(key): None when the key is absent
DictGet(d, key) == IF key \in DOMAIN d THEN Some(d[key]) ELSE None

P_debug == <<"d","e","b","u","g">>

P_hi == <<"h","i">>

Prompts == {P_debug, P_hi}

Str_ftp == <<"f","t","p">>

\* PromptRequest
PromptRequests(prompts, providers, models, options) ==
    [ prompt : prompts, provider : providers, model : models,
      options : options, bypass_enhancement : BOOLEAN ]

\* the requests of Spec: one supported provider with its default model, and an
\* unsupported one
Requests == PromptRequests(Prompts, {Str_openai, Str_ftp}, {None}, {EmptyDict})

\* the requests of SpecOverlay
OverlayRequests == PromptRequests(Prompts, {Str_openai}, {None}, {EmptyDict})

NoCredentials ==
    [ OPENAI_API_KEY |-> None, ANTHROPIC_API_KEY |-> None, HUGGINGFACE_API_KEY |-> None ]

\* the environment of Spec and SpecOverlay: OPENAI_API_KEY is set
OpenAIKeySet == [NoCredentials EXCEPT !.OPENAI_API_KEY = Some(<<"sk-environ">>)]

\* a custom rule for "coding", well formed
CustomCoding ==
    [ coding |-> [ system_prompt |-> "custom system prompt",
                   template |-> << "custom: ", "{prompt}" >> ] ]

\* a "default" entry that is a JSON object without a "template"
NoTemplateDefault == [ default |-> [ system_prompt |-> "custom system prompt" ] ]

\* a "default" entry whose template has a replacement field besides {prompt}
FieldTemplateDefault ==
    [ default |-> [ system_prompt |-> "custom system prompt",
                    template |-> << "{task}", ": ", "{prompt}" >> ] ]

\* a "default" entry that is a JSON object without a "system_prompt"
NoSystemPromptDefault == [ default |-> [ template |-> << "custom: ", "{prompt}" >> ] ]

RulesFiles ==
    { FileAbsent, FileNotJson, FileObject(CustomCoding), FileObject(NoTemplateDefault),
      FileObject(FieldTemplateDefault), FileObject(NoSystemPromptDefault), FileNumber }

T_enhanced == << "Enhanced text" >>

T_answer == << "Answer text" >>

\* str(e) of what generate_response can raise
AdapterErrors == {<<"timeout">>}

\* generate_response returns a text or raises
AdapterOutcomes(texts) ==
    [ok : {TRUE}, text : texts] \cup [ok : {FALSE}, error : AdapterErrors]

\* what the adapter can answer to a meta-prompt
EnhanceOutcomes == AdapterOutcomes({T_enhanced})

\* what the adapter can answer to the final prompt
GenerateOutcomes == AdapterOutcomes({T_answer})

\* a call of generate_response as the service sees it: the credential of the
\* connector in the request header, the prompt and the options, and what the
\* call returned or raised
generate_response(provider, prompt, options, outcome) ==
    [ api_key |-> provider.api_key, prompt |-> prompt, options |-> options,
      outcome |-> outcome ]

\* FeedbackRequest: any two ints
FeedbackRequestsOf(ratings) == [ enhancement_index : -1..MaxHist, rating : ratings ]

\* the feedback requests of Spec and SpecOverlay
FeedbackRequests == FeedbackRequestsOf({5})

\* the requests of SpecFeedback: one prompt, and two ratings, one of them
\* outside the 1-5 scale
RatedRequests == PromptRequests({P_debug}, {Str_openai}, {None}, {EmptyDict})

RatedFeedbackRequests == FeedbackRequestsOf({0, 5})

-----------------------------------------------------------------------------
(* The request handlers of prompt-middleware.py *)

Idle == [pc |-> "idle"]

Slots == 1..MaxInflight

\* the enhance_prompt calls in flight
Enhancing == {i \in Slots : calls[i].pc = "enhance"}

\* the number of records in the histories of the engineers order[1..n]
RECURSIVE RecordCount(_, _)
RecordCount(engineers, n) ==
    IF n = 0 THEN 0
    ELSE Len(engineers.at[engineers.order[n]].enhancement_history)
           + RecordCount(engineers, n - 1)

\* the number of records in all histories
TotalRecords(engineers) == RecordCount(engineers, Len(engineers.order))

\* time.time(), read as a logical clock: it has ticked once for every record made
Now(engineers) == 1 + TotalRecords(engineers)

\* the bound of the model on the histories: a request that can append a record
\* is admitted only while there is room for it
HistoryRoom(request) ==
    request.bypass_enhancement
       \/ TotalRecords(prompt_engineers) + Cardinality(Enhancing) < MaxHist

\* no response is being sent: the event loop is free to run a handler
Ready == last_response.endpoint = "none"

\* HTTPException(status_code=500, detail=str(e))
InternalError(request, error, trace) ==
    [ endpoint |-> "/process", request |-> request, status_code |-> 500,
      detail |-> error, trace |-> trace ]

\* `if request.bypass_enhancement:` with the test always false
never_bypassed(request) == FALSE

\* `if request.bypass_enhancement:` (line 93)
bypassed(request) == request.bypass_enhancement

\* lines 103-113 with the exception of the final call swallowed
process_prompt_response_swallowed(call, outcome, trace) ==
    [ endpoint |-> "/process", request |-> call.request, status_code |-> 200,
      body |-> [ response |-> IF outcome.ok THEN outcome.text ELSE <<>>,
                 enhancement_index |-> call.enhancement_index ],
      trace |-> trace ]

\* the response of process_prompt to the outcome of its final call (lines 101-113)
process_prompt_response(call, outcome, trace) ==
    IF outcome.ok
    THEN [ endpoint |-> "/process", request |-> call.request, status_code |-> 200,
           body |-> [ response |-> outcome.text,
                      enhancement_index |-> call.enhancement_index ],
           trace |-> trace ]
    ELSE InternalError(call.request, outcome.error, trace)

\* process_prompt from its entry to its first await (lines 81-101)
process_prompt_begin(i, request) ==
    /\ Ready
    /\ calls[i].pc = "idle"
    /\ \A j \in 1..(i - 1) : calls[j].pc # "idle"
    /\ HistoryRoom(request)
    /\ LET got == get_or_create_provider(llm_providers, environ, request.provider,
                                         DictGet(request.options, "api_key"), request.model)
       IN  IF got.raised
           THEN /\ last_response' = InternalError(request, got.error,
                      [provider |-> None, enhance |-> "not_called", adapter_calls |-> <<>>])
                /\ llm_providers' = got.providers
                /\ UNCHANGED <<prompt_engineers, calls>>
           ELSE
           LET made == get_or_create_prompt_engineer(prompt_engineers, got.provider, rules_file)
               call == [ pc |-> "generate", request |-> request, provider |-> got.provider,
                         final_prompt |-> request.prompt, enhancement_index |-> None,
                         enhance |-> "not_called", adapter_calls |-> <<>>,
                         pending |-> [prompt |-> request.prompt, options |-> request.options] ]
           IN  /\ llm_providers' = got.providers
               /\ prompt_engineers' = made.engineers
               /\ IF made.raised
                  THEN /\ last_response' = InternalError(request, made.error,
                             [provider |-> Some(got.provider), enhance |-> "not_called",
                              adapter_calls |-> <<>>])
                       /\ UNCHANGED calls
                  ELSE IF bypassed(request)
                  THEN /\ calls' = [calls EXCEPT ![i] = call]
                       /\ UNCHANGED last_response
                  ELSE
                  LET prompt_engineer == made.engineers.at[got.provider]
                      enh == enhance_prompt_call(prompt_engineer, request.prompt)
                  IN  IF enh.raised
                      THEN /\ last_response' = InternalError(request, enh.error,
                                 [provider |-> Some(got.provider), enhance |-> "raised",
                                  adapter_calls |-> <<>>])
                           /\ UNCHANGED calls
                      ELSE IF enh.awaiting
                      THEN /\ calls' = [calls EXCEPT ![i] =
                                 [call EXCEPT !.pc = "enhance", !.enhance = "awaiting",
                                    !.pending = [prompt |-> enh.prompt, options |-> enh.options]]]
                           /\ UNCHANGED last_response
                      ELSE /\ calls' = [calls EXCEPT ![i] =
                                 [call EXCEPT !.enhance = "returned",
                                    !.final_prompt = enh.returned,
                                    !.enhancement_index =
                                        Some(Len(prompt_engineer.enhancement_history) - 1),
                                    !.pending = [prompt |-> enh.returned,
                                                 options |-> request.options]]]
                           /\ UNCHANGED last_response
    /\ UNCHANGED <<environ, rules_file, probe>>

\* process_prompt from the answer of the enhancement call to its second await
\* (prompt-engineer.py 138-155, prompt-middleware.py 97-101)
process_prompt_enhanced(i, outcome) ==
    /\ Ready
    /\ calls[i].pc = "enhance"
    /\ LET call == calls[i]
           now == Now(prompt_engineers)
           prompt_engineer == prompt_engineers.at[call.provider]
           done == enhance_prompt_resume(prompt_engineer, call.request.prompt, outcome, now)
           final_prompt == done.returned
           enhancement_index == Len(done.engineer.enhancement_history) - 1
       IN  /\ prompt_engineers' = [prompt_engineers EXCEPT !.at[call.provider] = done.engineer]
           /\ calls' = [calls EXCEPT ![i] =
                 [call EXCEPT !.pc = "generate", !.enhance = "returned",
                    !.final_prompt = final_prompt,
                    !.enhancement_index = Some(enhancement_index),
                    !.adapter_calls = Append(@, generate_response(llm_providers[call.provider],
                                                                  call.pending.prompt,
                                                                  call.pending.options,
                                                                  outcome)),
                    !.pending = [prompt |-> final_prompt, options |-> call.request.options]]]
    /\ UNCHANGED <<environ, rules_file, llm_providers, last_response, probe>>

\* process_prompt from the answer of the final call to its response (lines 101-113)
process_prompt_generated(i, outcome) ==
    /\ Ready
    /\ calls[i].pc = "generate"
    /\ LET call == calls[i]
           trace == [ provider |-> Some(call.provider), enhance |-> call.enhance,
                      adapter_calls |-> Append(call.adapter_calls,
                                               generate_response(llm_providers[call.provider],
                                                                 call.pending.prompt,
                                                                 call.pending.options,
                                                                 outcome)) ]
       IN  last_response' = process_prompt_response(call, outcome, trace)
    /\ calls' = [calls EXCEPT ![i] = Idle]
    /\ UNCHANGED <<environ, rules_file, llm_providers, prompt_engineers, probe>>

\* enhance_prompt leaving a record of the prompt behind when it is cancelled
enhance_prompt_cancelled_recorded(engineer, prompt, now) ==
    [engineer EXCEPT !.enhancement_history = Append(@, PromptEnhancement(prompt, prompt, now))]

\* the engineer after asyncio.CancelledError is thrown into an enhance_prompt
\* that waits for its adapter call (line 138): CancelledError is a
\* BaseException, `except Exception` (line 152) does not catch it, and the
\* append of line 145 is never reached
enhance_prompt_cancelled(engineer, prompt, now) == engineer

\* the task of a process_prompt is cancelled at one of its awaits (line 97 or
\* line 101): CancelledError passes through `except Exception` (line 108) and
\* the call ends without a response; last_response records how it ended
process_prompt_cancelled(i) ==
    /\ Ready
    /\ calls[i].pc \in {"enhance", "generate"}
    /\ LET call == calls[i]
       IN  /\ prompt_engineers' =
                 IF call.pc = "enhance"
                 THEN [prompt_engineers EXCEPT !.at[call.provider] =
                          enhance_prompt_cancelled(@, call.request.prompt,
                                                   Now(prompt_engineers))]
                 ELSE prompt_engineers
           /\ last_response' =
                 [ endpoint |-> "cancelled", request |-> call.request,
                   trace |-> [ provider |-> Some(call.provider), enhance |-> call.enhance,
                               adapter_calls |-> call.adapter_calls ] ]
    /\ calls' = [calls EXCEPT ![i] = Idle]
    /\ UNCHANGED <<environ, rules_file, llm_providers, probe>>

\* provide_feedback (lines 115-131)
provide_feedback(request) ==
    /\ Ready
    /\ prompt_engineers' =
          [prompt_engineers EXCEPT !.at =
              [k \in DOMAIN @ |->
                  record_effectiveness(@[k], request.enhancement_index, request.rating)]]
    /\ last_response' = [ endpoint |-> "/feedback", request |-> request,
                          status_code |-> 200, body |-> [status |-> "success"] ]
    /\ UNCHANGED <<environ, rules_file, llm_providers, calls, probe>>

\* get_enhancement_history (lines 133-144)
get_enhancement_history ==
    /\ Ready
    /\ last_response' =
          [ endpoint |-> "/history", status_code |-> 200,
            body |-> [ history |->
                IF prompt_engineers.order = <<>> THEN <<>>
                ELSE HistoryDicts(
                       prompt_engineers.at[prompt_engineers.order[1]].enhancement_history) ] ]
    /\ UNCHANGED <<environ, rules_file, llm_providers, prompt_engineers, calls, probe>>

\* the response is sent: the event loop goes on to the next handler
response_sent ==
    /\ ~Ready
    /\ last_response' = [endpoint |-> "none"]
    /\ UNCHANGED <<environ, rules_file, llm_providers, prompt_engineers, calls, probe>>

-----------------------------------------------------------------------------
(* The application *)

NoProbe == [prompt |-> <<>>, prompt_type |-> None]

InitWith(files) ==
    /\ environ = OpenAIKeySet
    /\ rules_file \in files
    /\ llm_providers = EmptyDict
    /\ prompt_engineers = EmptyRegistry
    /\ calls = [i \in Slots |-> Idle]
    /\ last_response = [endpoint |-> "none"]
    /\ probe = NoProbe

\* a step of the application serving the requests `requests` and `feedbacks`
Serve(requests, feedbacks) ==
    \/ \E i \in Slots, request \in requests : process_prompt_begin(i, request)
    \/ \E i \in Slots, outcome \in EnhanceOutcomes : process_prompt_enhanced(i, outcome)
    \/ \E i \in Slots, outcome \in GenerateOutcomes : process_prompt_generated(i, outcome)
    \/ \E request \in feedbacks : provide_feedback(request)
    \/ get_enhancement_history
    \/ response_sent

\* the application started without an enhancement_rules.json
Init == InitWith({FileAbsent})

Next == Serve(Requests, FeedbackRequests)

Spec == Init /\ [][Next]_vars

\* the application started with any of the enhancement_rules.json of RulesFiles
InitOverlay == InitWith(RulesFiles)

\* the feedback of SpecOverlay: the first record is rated
OverlayFeedbackRequests == [ enhancement_index : {0}, rating : {5} ]

NextOverlay == Serve(OverlayRequests, OverlayFeedbackRequests)

SpecOverlay == InitOverlay /\ [][NextOverlay]_vars

\* the application rated with ratings inside and outside the scale
NextFeedback == Serve(RatedRequests, RatedFeedbackRequests)

SpecFeedback == Init /\ [][NextFeedback]_vars

\* the requests and the feedback of SpecCancel
CancelRequests == PromptRequests(Prompts, {Str_openai}, {None}, {EmptyDict})

CancelFeedbackRequests == [ enhancement_index : {0}, rating : {5} ]

\* the application with calls that can be cancelled while they wait for the
\* adapter
NextCancel ==
    \/ Serve(CancelRequests, CancelFeedbackRequests)
    \/ \E i \in Slots : process_prompt_cancelled(i)

SpecCancel == Init /\ [][NextCancel]_vars

\* the credential a request can carry in its options
Key_request == <<"sk-request">>

\* request options that carry an api_key
WithKey(key) == [api_key |-> key]

\* the requests of SpecCredentials: a supported provider, with and without a
\* credential of the request, and an unsupported one
CredentialRequests ==
    PromptRequests({P_hi}, {Str_openai}, {None}, {EmptyDict, WithKey(Key_request)})
       \cup PromptRequests({P_hi}, {Str_ftp}, {None}, {EmptyDict})

CredentialFeedbackRequests == [ enhancement_index : {0}, rating : {5} ]

\* the application started with or without OPENAI_API_KEY in its environment
InitCredentials ==
    /\ environ \in {NoCredentials, OpenAIKeySet}
    /\ rules_file = FileAbsent
    /\ llm_providers = EmptyDict
    /\ prompt_engineers = EmptyRegistry
    /\ calls = [i \in Slots |-> Idle]
    /\ last_response = [endpoint |-> "none"]
    /\ probe = NoProbe

NextCredentials == Serve(CredentialRequests, CredentialFeedbackRequests)

SpecCredentials == InitCredentials /\ [][NextCredentials]_vars

\* the provider name in the letter case of the brand
Str_OpenAI == <<"O","p","e","n","A","I">>

\* the requests of SpecRegistry: one provider named in two letter cases, with
\* its default model
RegistryRequests == PromptRequests({P_hi}, {Str_openai, Str_OpenAI}, {None}, {EmptyDict})

\* the feedback of SpecRegistry: the first record is rated
RegistryFeedbackRequests == [ enhancement_index : {0}, rating : {5} ]

\* the application asked for several providers
NextRegistry == Serve(RegistryRequests, RegistryFeedbackRequests)

SpecRegistry == Init /\ [][NextRegistry]_vars

-----------------------------------------------------------------------------
(* detect_prompt_type as a pure function: the prompts probed are the texts   *)
(* made of up to MaxFrags fragments, so that keywords also arise across the  *)
(* seam of two fragments ("co" + "de") and in either letter case.            *)

Fragments ==
    { <<"b","u","g">>, <<"c","o">>, <<"d","e">>, <<"s","i","g","n">>,
      <<"W","r","i","t","e">>, <<"E","X","P","L","A","I","N">>,
      <<"h","i">>, <<" ">> }

RECURSIVE TextsOf(_)
TextsOf(n) ==
    IF n = 0 THEN {<<>>}
    ELSE LET shorter == TextsOf(n - 1)
         IN  shorter \cup {t \o f : t \in shorter, f \in Fragments}

ProbePrompts == TextsOf(MaxFrags)

InitDetect ==
    /\ environ = OpenAIKeySet
    /\ rules_file = FileAbsent
    /\ llm_providers = EmptyDict
    /\ prompt_engineers = EmptyRegistry
    /\ calls = [i \in Slots |-> Idle]
    /\ last_response = [endpoint |-> "none"]
    /\ probe \in [prompt : ProbePrompts, prompt_type : {None}]

\* detect_prompt_type is applied to the probed prompt
Detect ==
    /\ probe.prompt_type = None
    /\ probe' = [probe EXCEPT !.prompt_type = Some(detect_prompt_type(probe.prompt))]
    /\ UNCHANGED <<environ, rules_file, llm_providers, prompt_engineers, calls, last_response>>

NextDetect == Detect

SpecDetect == InitDetect /\ [][NextDetect]_vars


-----------------------------------------------------------------------------
(* Properties *)

\* the history of the engineer of a provider; empty when there is none yet
HistoryAt(engineers, provider) ==
    IF provider \in RegistryKeys(engineers)
    THEN engineers.at[provider].enhancement_history
    ELSE <<>>

\* this step is the one in which enhance_prompt returns to the process_prompt of slot i
EnhanceReturned(i) ==
    /\ calls[i].pc # "generate"
    /\ calls'[i].pc = "generate"
    /\ calls'[i].enhance = "returned"

\* the response being sent answers a process request
ProcessResponse == last_response.endpoint = "/process"

\* C1: every enhance_prompt(p) that returns has appended exactly one record to
\* the history of its engineer, on the success path and on the failure path:
\* the history is one longer, and its new last record has original_prompt = p
\* and no rating.
C1_EnhanceAppendsOneRecord ==
    [][\A i \in Slots :
         EnhanceReturned(i) =>
            LET before == HistoryAt(prompt_engineers, calls'[i].provider)
                after == HistoryAt(prompt_engineers', calls'[i].provider)
            IN  /\ Len(after) = Len(before) + 1
                /\ after[Len(after)].original_prompt = calls'[i].request.prompt
                /\ after[Len(after)].effectiveness_rating = None]_vars

\* C2: when enhance_prompt returns, the value it returns is the
\* enhanced_prompt of the last record of its engineer's history.
C2_ReturnedIsLastRecord ==
    [][\A i \in Slots :
         EnhanceReturned(i) =>
            LET after == HistoryAt(prompt_engineers', calls'[i].provider)
            IN  /\ after # <<>>
                /\ after[Len(after)].enhanced_prompt = calls'[i].final_prompt]_vars

\* C3: the enhancement_index of a response to a request that was not bypassed
\* is an index of the history of the engineer that served it, and the record
\* at that index has the request's prompt as its original_prompt.
C3_IndexNamesTheRequestsRecord ==
    (ProcessResponse /\ last_response.status_code = 200
        /\ ~last_response.request.bypass_enhancement) =>
       LET index == last_response.body.enhancement_index
           history == HistoryAt(prompt_engineers, TheValue(last_response.trace.provider))
       IN  /\ index # None
           /\ 0 <= TheValue(index)
           /\ TheValue(index) < Len(history)
           /\ history[TheValue(index) + 1].original_prompt = last_response.request.prompt

\* C4: enhance_prompt never raises to process_prompt, whatever the prompt and
\* whatever the adapter does.
C4_EnhanceNeverRaises ==
    ProcessResponse => last_response.trace.enhance # "raised"

\* C5: enhance_prompt returns the prompt it was given when its adapter call
\* failed, and the text the adapter returned when the call succeeded.
C5_EnhanceReturnsPromptOrAdapterText ==
    \A i \in Slots :
       (calls[i].pc = "generate" /\ calls[i].enhance = "returned"
           /\ calls[i].adapter_calls # <<>>) =>
          LET answer == calls[i].adapter_calls[1].outcome
          IN  IF answer.ok
              THEN calls[i].final_prompt = answer.text
              ELSE calls[i].final_prompt = calls[i].request.prompt

\* two calls whose enhance_prompt has returned, one after a failed adapter call
\* and one after a successful one
C5_Witness ==
    \E i, j \in Slots :
       /\ calls[i].pc = "generate" /\ calls[i].enhance = "returned"
       /\ calls[i].adapter_calls # <<>> /\ ~calls[i].adapter_calls[1].outcome.ok
       /\ calls[i].final_prompt = calls[i].request.prompt
       /\ calls[j].pc = "generate" /\ calls[j].enhance = "returned"
       /\ calls[j].adapter_calls # <<>> /\ calls[j].adapter_calls[1].outcome.ok
       /\ calls[j].final_prompt = T_enhanced

\* the index is outside the bounds of every history
OutOfRange(index, engineers) ==
    \A k \in RegistryKeys(engineers) :
       ~(0 <= index /\ index < Len(engineers.at[k].enhancement_history))

\* C6: feedback with an index outside the history bounds reports not-found
\* and not success, and leaves every record unchanged.
C6_OutOfRangeFeedbackReportsNotFound ==
    [][(last_response'.endpoint = "/feedback"
          /\ OutOfRange(last_response'.request.enhancement_index, prompt_engineers)) =>
         /\ last_response'.body.status = "not-found"
         /\ prompt_engineers' = prompt_engineers]_vars

\* C7: record_effectiveness(i, r) with i inside the bounds of a history sets
\* the rating of record i to r and changes nothing else: the length of the
\* history, the prompts and the timestamp of every record, and the rating of
\* every other record stay as they were.
C7_RatingChangesOnlyItsRecord ==
    [][last_response'.endpoint = "/feedback" =>
         LET index == last_response'.request.enhancement_index
             rating == last_response'.request.rating
         IN  /\ RegistryKeys(prompt_engineers') = RegistryKeys(prompt_engineers)
             /\ \A k \in RegistryKeys(prompt_engineers) :
                   LET before == prompt_engineers.at[k].enhancement_history
                       after == prompt_engineers'.at[k].enhancement_history
                   IN  (0 <= index /\ index < Len(before)) =>
                          /\ Len(after) = Len(before)
                          /\ \A j \in 1..Len(before) :
                                /\ after[j].original_prompt = before[j].original_prompt
                                /\ after[j].enhanced_prompt = before[j].enhanced_prompt
                                /\ after[j].timestamp = before[j].timestamp
                                /\ after[j].effectiveness_rating =
                                      IF j = index + 1 THEN Some(rating)
                                      ELSE before[j].effectiveness_rating]_vars

\* feedback has rated the first of two records with 5 and the second record,
\* rated 0 before, keeps its rating
C7_Witness ==
    /\ last_response.endpoint = "/feedback"
    /\ last_response.request.enhancement_index = 0
    /\ last_response.request.rating = 5
    /\ \E k \in RegistryKeys(prompt_engineers) :
          LET history == prompt_engineers.at[k].enhancement_history
          IN  /\ Len(history) = 2
              /\ history[1].effectiveness_rating = Some(5)
              /\ history[2].effectiveness_rating = Some(0)

\* this step is taken by a process_prompt whose request is bypassed: it enters
\* a slot, or its response is sent
BypassStep ==
    \/ \E i \in Slots :
          /\ calls[i].pc = "idle"
          /\ calls'[i].pc # "idle"
          /\ calls'[i].request.bypass_enhancement
    \/ /\ last_response'.endpoint = "/process"
       /\ last_response.endpoint = "none"
       /\ last_response'.request.bypass_enhancement

\* C8: a bypassed process_prompt skips enhancement: no step of it appends a
\* record to any history, its response carries no enhancement_index, and the
\* adapter has been called once, with the prompt of the request.
C8_BypassSkipsEnhancement ==
    [][BypassStep =>
         /\ \A k \in RegistryKeys(prompt_engineers') :
               HistoryAt(prompt_engineers', k) = HistoryAt(prompt_engineers, k)
         /\ (last_response'.endpoint = "/process" /\ last_response'.status_code = 200) =>
               /\ last_response'.body.enhancement_index = None
               /\ last_response'.trace.enhance = "not_called"
               /\ Len(last_response'.trace.adapter_calls) = 1
               /\ last_response'.trace.adapter_calls[1].prompt
                     = last_response'.request.prompt]_vars

\* a bypassed request is answered while the history holds a record
C8_Witness ==
    /\ ProcessResponse
    /\ last_response.status_code = 200
    /\ last_response.request.bypass_enhancement
    /\ last_response.body.enhancement_index = None
    /\ TotalRecords(prompt_engineers) > 0

\* C9: a failure of the enhancement call does not fail the request: the final
\* call is made with the original prompt, and the response is that of the
\* final call. A failure of the final call surfaces as one error response that
\* carries str(e) and no body.
C9_EnhanceFailureRecoveredFinalFailureSurfaces ==
    /\ \A i \in Slots :
          (calls[i].pc # "idle" /\ calls[i].adapter_calls # <<>>
              /\ ~calls[i].adapter_calls[1].outcome.ok) =>
             /\ calls[i].pc = "generate"
             /\ calls[i].pending.prompt = calls[i].request.prompt
    /\ (ProcessResponse /\ last_response.trace.adapter_calls # <<>>) =>
          LET made == last_response.trace.adapter_calls
              final == made[Len(made)].outcome
          IN  IF final.ok
              THEN /\ last_response.status_code = 200
                   /\ last_response.body.response = final.text
              ELSE /\ last_response.status_code = 500
                   /\ last_response.detail = final.error
                   /\ "body" \notin DOMAIN last_response

\* the final call of one request has failed and its error is being sent, while
\* another request whose enhancement call failed waits for its final call
C9_Witness ==
    /\ ProcessResponse
    /\ last_response.status_code = 500
    /\ last_response.trace.adapter_calls # <<>>
    /\ last_response.detail = <<"timeout">>
    /\ \E i \in Slots :
          /\ calls[i].pc = "generate"
          /\ calls[i].adapter_calls # <<>>
          /\ ~calls[i].adapter_calls[1].outcome.ok

\* the categories in the order of their priority, and their keywords
Priority == <<"coding", "creative", "analytical">>

TermsOf(category) ==
    CASE category = "coding" -> CodingTerms
      [] category = "creative" -> CreativeTerms
      [] category = "analytical" -> AnalyticalTerms

\* the places in Priority of the categories that have a keyword in the prompt
Matching(prompt) ==
    {n \in DOMAIN Priority : AnyTermIn(TermsOf(Priority[n]), Lower(prompt))}

\* C10: detect_prompt_type returns the first category, in the order coding,
\* creative, analytical, that has a keyword as a substring of the lower-cased
\* prompt, and default when none has.
C10_DetectFirstMatchInPriorityOrder ==
    probe.prompt_type # None =>
       LET matching == Matching(probe.prompt)
       IN  TheValue(probe.prompt_type) =
              IF matching = {} THEN "default"
              ELSE Priority[CHOOSE n \in matching : \A m \in matching : n <= m]

\* a prompt with a creative keyword before a coding keyword is detected as coding
C10_Witness ==
    /\ probe.prompt = <<"W","r","i","t","e"," ","b","u","g">>
    /\ probe.prompt_type = Some("coding")

\* the overlay source is a mapping from category name to rule: a JSON object
\* whose values are objects with a system_prompt and a template
WellFormedOverlay(file) ==
    /\ file.exists
    /\ file.json.type = "object"
    /\ \A c \in DOMAIN file.json.value :
          DOMAIN file.json.value[c] = {"system_prompt", "template"}

\* the request being answered failed in the constructor of its PromptEngineer:
\* its provider is registered and has no engineer
ConstructionRaised ==
    /\ ProcessResponse
    /\ last_response.status_code = 500
    /\ last_response.trace.provider # None
    /\ TheValue(last_response.trace.provider) \notin RegistryKeys(prompt_engineers)

\* C11: when enhancement_rules.json is absent or is not a mapping from
\* category name to rule, the construction of a PromptEngineer does not raise
\* and leaves the four built-in rules in effect.
C11_UnusableOverlayKeepsBuiltinRules ==
    ~WellFormedOverlay(rules_file) =>
       /\ ~ConstructionRaised
       /\ \A k \in RegistryKeys(prompt_engineers) :
             prompt_engineers.at[k].enhancement_rules = BuiltinRules

\* the rule the overlay of `file` leaves for a category
RuleAfterOverlay(file, category) ==
    IF category \in DOMAIN file.json.value
    THEN file.json.value[category]
    ELSE BuiltinRules[category]

\* C12: with an enhancement_rules.json that is an object, every category the
\* file names has the file's rule after construction, every built-in category
\* the file does not name keeps its built-in rule, and enhance_prompt sends
\* the system prompt of the rule so chosen.
C12_OverlayOverwritesByCategory ==
    (rules_file.exists /\ rules_file.json.type = "object") =>
       /\ \A k \in RegistryKeys(prompt_engineers) :
             LET rules == prompt_engineers.at[k].enhancement_rules
                 overlay == rules_file.json.value
             IN  /\ \A c \in DOMAIN overlay : c \in DOMAIN rules /\ rules[c] = overlay[c]
                 /\ \A c \in (DOMAIN BuiltinRules) \ (DOMAIN overlay) :
                       rules[c] = BuiltinRules[c]
       /\ \A i \in Slots :
             calls[i].pc = "enhance" =>
                calls[i].pending.options.system_prompt =
                   RuleAfterOverlay(rules_file,
                                    detect_prompt_type(calls[i].request.prompt)).system_prompt

\* with a custom coding rule, a coding prompt is being enhanced with the custom
\* rule while a prompt of no category is being enhanced with the built-in
\* default rule
C12_Witness ==
    /\ rules_file = FileObject(CustomCoding)
    /\ \E i, j \in Slots :
          /\ calls[i].pc = "enhance"
          /\ calls[i].request.prompt = P_debug
          /\ calls[i].pending.prompt = <<"custom: ">> \o P_debug
          /\ calls[i].pending.options.system_prompt = "custom system prompt"
          /\ calls[j].pc = "enhance"
          /\ calls[j].request.prompt = P_hi
          /\ calls[j].pending.options.system_prompt = BuiltinRules.default.system_prompt

\* C13: the history is append-only with stable indices: no step of the
\* application removes an engineer or shortens a history, and the record at
\* every index keeps its original_prompt and its enhanced_prompt.
C13_HistoryAppendOnly ==
    [][/\ RegistryKeys(prompt_engineers) \subseteq RegistryKeys(prompt_engineers')
       /\ \A k \in RegistryKeys(prompt_engineers) :
             LET before == prompt_engineers.at[k].enhancement_history
                 after == prompt_engineers'.at[k].enhancement_history
             IN  /\ Len(after) >= Len(before)
                 /\ \A j \in 1..Len(before) :
                       /\ after[j].original_prompt = before[j].original_prompt
                       /\ after[j].enhanced_prompt = before[j].enhanced_prompt]_vars

\* a history of two records of different prompts, the first of them rated,
\* is being returned by the history endpoint
C13_Witness ==
    /\ last_response.endpoint = "/history"
    /\ Len(last_response.body.history) = 2
    /\ last_response.body.history[1].original_prompt = P_hi
    /\ last_response.body.history[2].original_prompt = P_debug
    /\ last_response.body.history[1].effectiveness_rating = Some(5)

\* C14: the effectiveness_rating of every record is unset or an integer from
\* 1 to 5, whatever ratings the feedback requests carry.
C14_RatingsOnTheScale ==
    \A k \in RegistryKeys(prompt_engineers) :
       \A j \in DOMAIN prompt_engineers.at[k].enhancement_history :
          LET rating == prompt_engineers.at[k].enhancement_history[j].effectiveness_rating
          IN  rating = None \/ TheValue(rating) \in 1..5

\* the categories detect_prompt_type can return
Categories == {"coding", "creative", "analytical", "default"}

\* str(KeyError(category)) for the categories
LookupErrors == {<<"'", c, "'">> : c \in Categories}

\* C15: the rule lookup of enhance_prompt never fails: every PromptEngineer
\* that was constructed, with or without an overlay, has an entry for each of
\* coding, creative, analytical and default, these are the categories
\* detect_prompt_type returns, and no request fails on the lookup.
C15_RuleLookupNeverFails ==
    /\ \A k \in RegistryKeys(prompt_engineers) :
          Categories \subseteq DOMAIN prompt_engineers.at[k].enhancement_rules
    /\ \A p \in Prompts : detect_prompt_type(p) \in Categories
    /\ (ProcessResponse /\ last_response.status_code = 500) =>
          last_response.detail \notin LookupErrors

\* an overlay has overwritten the default entry, and a coding prompt has found
\* its rule in the table that results
C15_Witness ==
    /\ rules_file = FileObject(NoSystemPromptDefault)
    /\ \E i \in Slots :
          /\ calls[i].pc = "enhance"
          /\ calls[i].request.prompt = P_debug
          /\ DOMAIN prompt_engineers.at[calls[i].provider].enhancement_rules = Categories
          /\ prompt_engineers.at[calls[i].provider].enhancement_rules.default
                = NoSystemPromptDefault.default

\* the records, by engineer and place, whose rating this step changes
RatingsChanged ==
    UNION { { <<k, j>> : j \in { n \in DOMAIN prompt_engineers.at[k].enhancement_history :
                                   prompt_engineers'.at[k].enhancement_history[n].effectiveness_rating
                                     # prompt_engineers.at[k].enhancement_history[n].effectiveness_rating } }
            : k \in RegistryKeys(prompt_engineers) }

\* C16: a feedback call changes the rating of at most one record over all
\* PromptEngineer instances; records at the same index of other instances
\* stay as they were.
C16_FeedbackRatesOneRecord ==
    [][last_response'.endpoint = "/feedback" => Cardinality(RatingsChanged) <= 1]_vars

\* C17: a process_prompt that is not bypassed and whose enhance_prompt has
\* returned has called the adapter exactly twice: first with the meta-prompt
\* and the system prompt of the rule of the prompt's category, then with the
\* value enhance_prompt returned (the adapter's text, or the prompt when the
\* first call failed).
C17_AdapterCalledTwiceInOrder ==
    (ProcessResponse /\ ~last_response.request.bypass_enhancement
        /\ last_response.trace.enhance = "returned") =>
       LET made == last_response.trace.adapter_calls
           prompt == last_response.request.prompt
           rules == prompt_engineers.at[TheValue(last_response.trace.provider)].enhancement_rules
           rule == rules[detect_prompt_type(prompt)]
       IN  /\ Len(made) = 2
           /\ made[1].prompt = Format(rule.template, prompt).value
           /\ made[1].options = [system_prompt |-> rule.system_prompt]
           /\ made[2].prompt = IF made[1].outcome.ok THEN made[1].outcome.text ELSE prompt

\* C18: the lifecycle of a record's rating: a record is appended with its
\* rating unset; a feedback call whose index is in range leaves the rating of
\* the call in the record, whether the record was rated before or not; no
\* other step changes a rating, so the rating stored is that of the most
\* recent in-range call, and a rated record never becomes unrated.
C18_RatingLastWriteWins ==
    [][\A k \in RegistryKeys(prompt_engineers') :
         LET before == HistoryAt(prompt_engineers, k)
             after == HistoryAt(prompt_engineers', k)
         IN  \A j \in DOMAIN after :
                IF j \notin DOMAIN before
                THEN after[j].effectiveness_rating = None
                ELSE /\ before[j].effectiveness_rating # None =>
                           after[j].effectiveness_rating # None
                     /\ after[j].effectiveness_rating =
                           IF /\ last_response'.endpoint = "/feedback"
                              /\ last_response.endpoint = "none"
                              /\ j = last_response'.request.enhancement_index + 1
                           THEN Some(last_response'.request.rating)
                           ELSE before[j].effectiveness_rating]_vars

\* the second record has just been rated 0 while the first, rated 5 by an
\* earlier call, keeps its rating
C18_Witness ==
    /\ last_response.endpoint = "/feedback"
    /\ last_response.request.enhancement_index = 1
    /\ last_response.request.rating = 0
    /\ \E k \in RegistryKeys(prompt_engineers) :
          LET history == prompt_engineers.at[k].enhancement_history
          IN  /\ Len(history) = 2
              /\ history[1].effectiveness_rating = Some(5)
              /\ history[2].effectiveness_rating = Some(0)

\* the process_prompt calls in flight or being answered, each with the
\* provider, and so the engineer, that serves it
Served ==
    { <<calls[i].request, calls[i].provider>> : i \in {n \in Slots : calls[n].pc # "idle"} }
       \cup (IF ProcessResponse /\ last_response.trace.provider # None
             THEN { <<last_response.request, TheValue(last_response.trace.provider)>> }
             ELSE {})

\* C19: process calls that name the same provider, letter case aside, and the
\* same model are served by one PromptEngineer: no two such calls have
\* different engineers, and the registry holds one provider and one engineer
\* for them; every engineer belongs to the provider it is registered under.
C19_OneEngineerPerProviderAndModel ==
    /\ \A a, b \in Served :
          (Lower(a[1].provider) = Lower(b[1].provider) /\ a[1].model = b[1].model) =>
             a[2] = b[2]
    /\ \A k1, k2 \in DOMAIN llm_providers :
          (llm_providers[k1].kind = llm_providers[k2].kind
              /\ llm_providers[k1].model = llm_providers[k2].model) => k1 = k2
    /\ \A k \in RegistryKeys(prompt_engineers) : prompt_engineers.at[k].llm_provider = k

\* C20: when a call is cancelled while its enhance_prompt waits for the
\* adapter, no record is appended for it and every record there is stays as
\* it was.
C20_CancelledEnhanceLeavesHistory ==
    [][\A i \in Slots :
         (calls[i].pc = "enhance" /\ calls'[i].pc = "idle"
             /\ last_response'.endpoint = "cancelled") =>
            /\ RegistryKeys(prompt_engineers') = RegistryKeys(prompt_engineers)
            /\ \A k \in RegistryKeys(prompt_engineers) :
                  HistoryAt(prompt_engineers', k) = HistoryAt(prompt_engineers, k)]_vars

\* a call for one prompt has been cancelled during its enhancement call, and
\* the history holds the one record it held before, of another prompt and rated
C20_Witness ==
    /\ last_response.endpoint = "cancelled"
    /\ last_response.trace.enhance = "awaiting"
    /\ last_response.trace.adapter_calls = <<>>
    /\ last_response.request.prompt = P_debug
    /\ \E k \in RegistryKeys(prompt_engineers) :
          LET history == prompt_engineers.at[k].enhancement_history
          IN  /\ Len(history) = 1
              /\ history[1].original_prompt = P_hi
              /\ history[1].effectiveness_rating = Some(5)

\* the records of all engineers, as the dicts of PromptEnhancement.to_dict
AllRecordDicts ==
    UNION { { HistoryDicts(prompt_engineers.at[k].enhancement_history)[j] :
                 j \in DOMAIN prompt_engineers.at[k].enhancement_history }
            : k \in RegistryKeys(prompt_engineers) }

\* C21: every record that a process call has appended, on whichever provider
\* and model, is in the result of a later history call.
C21_HistoryReturnsEveryRecord ==
    last_response.endpoint = "/history" =>
       \A record \in AllRecordDicts :
          \E j \in DOMAIN last_response.body.history : last_response.body.history[j] = record

\* C22: a provider that has been created for a key stays in the registry as
\* it was created, with its api_key, whatever later requests carry; and the
\* adapter calls of every request served under the key were made with that
\* api_key.
C22_ProviderKeepsItsCredential ==
    [][/\ \A k \in DOMAIN llm_providers :
             k \in DOMAIN llm_providers' /\ llm_providers'[k] = llm_providers[k]
       /\ (last_response'.endpoint = "/process" /\ last_response.endpoint = "none"
              /\ last_response'.trace.provider # None) =>
             LET provider == TheValue(last_response'.trace.provider)
                 made == last_response'.trace.adapter_calls
             IN  \A n \in DOMAIN made :
                    /\ provider \in DOMAIN llm_providers
                    /\ made[n].api_key = llm_providers[provider].api_key]_vars

\* a request that carries a credential of its own has been answered after two
\* adapter calls made with the credential of the environment, with which the
\* provider was created
C22_Witness ==
    /\ ProcessResponse
    /\ last_response.status_code = 200
    /\ last_response.request.options = WithKey(Key_request)
    /\ Len(last_response.trace.adapter_calls) = 2
    /\ \A n \in 1..2 : last_response.trace.adapter_calls[n].api_key = <<"sk-environ">>
    /\ environ = OpenAIKeySet

\* the provider a request names cannot be created: there is none for its key,
\* and its name is not supported or neither the request nor the environment
\* has a credential for it
Uncreatable(request) ==
    /\ ProviderKey(request.provider, request.model) \notin DOMAIN llm_providers
    /\ \/ ConnectorKind(request.provider) = None
       \/ ~Truthy(OrElse(DictGet(request.options, "api_key"),
                         environ[EnvVar(TheValue(ConnectorKind(request.provider)))]))

\* C23: a process call whose provider cannot be created is answered with an
\* error at once and changes nothing: it never becomes a call in flight, no
\* adapter call is made, and the registries of providers and of engineers,
\* with their histories, and the other calls are as they were.
C23_UncreatableProviderChangesNothing ==
    [][/\ \A i \in Slots :
             (calls[i].pc = "idle" /\ calls'[i].pc # "idle") => ~Uncreatable(calls'[i].request)
       /\ (last_response.endpoint = "none" /\ last_response'.endpoint = "/process"
              /\ calls' = calls /\ Uncreatable(last_response'.request)) =>
             /\ last_response'.status_code = 500
             /\ last_response'.trace.adapter_calls = <<>>
             /\ llm_providers' = llm_providers
             /\ prompt_engineers' = prompt_engineers]_vars

\* without a credential in the environment, a request for an unsupported
\* provider has failed while the provider created for a request with a
\* credential is registered, holds a record, and serves a call in flight
C23_Witness ==
    /\ environ = NoCredentials
    /\ ProcessResponse
    /\ last_response.status_code = 500
    /\ last_response.request.provider = Str_ftp
    /\ last_response.detail = <<"Unsupported provider: ">> \o Str_ftp
    /\ DOMAIN llm_providers = {ProviderKey(Str_openai, None)}
    /\ llm_providers[ProviderKey(Str_openai, None)].api_key = Key_request
    /\ TotalRecords(prompt_engineers) = 1
    /\ \E i \in Slots : calls[i].pc # "idle"

=============================================================================
